---- MODULE Spec2Model ----
(***************************************************************************)
(* A model of zephyrgoose/gptapi: the configuration cache, the request     *)
(* builder (both versions of APICallPreparer.prepare_parameters), the one  *)
(* blocking completion call, result extraction and the handler chain of    *)
(* gptapi(), as one process making a bounded number of gptapi() and        *)
(* load_yaml() calls.                                                      *)
(*                                                                         *)
(* Texts are slices [lo, hi) of a source string, so that a prompt of       *)
(* several hundred thousand characters is two integers; the system prompt  *)
(* is a slice of its own source.  The tokenizer (tiktoken, an external     *)
(* library) is modelled as one token per CharsPerToken characters.         *)
(***************************************************************************)
EXTENDS Integers, Sequences, FiniteSets, TLC

VARIABLES
    impl,          \* which file is imported as gptapi: "new" (gptapi.py) or "old" (gptapi-old.py)
    sdk,           \* the installed openai package: "v0" (has openai.error, no openai.OpenAI) or "v1"
    disk,          \* the YAML files on disk, by path
    cache,         \* ConfigurationManager._cache
    opens,         \* per path, the number of open() calls made by load_file
    edits,         \* number of changes made to the files by the environment
    directLoads,   \* number of load_yaml calls made by the caller itself
    logConfigured, \* Logger._configured
    invocations,   \* number of gptapi() calls started
    pc,            \* position inside gptapi()
    prompt,        \* gptapi's prompt argument
    config,        \* gptapi's local `config`
    client,        \* TRUE once OpenAIClientManager.__init__ has returned
    stack,         \* gptapi-old.py: the active prepare_parameters frames
    preparers,     \* APICallPreparer objects created in this invocation
    discarded,     \* gptapi-old.py: the second_parameters values computed and dropped
    parameters,    \* gptapi's local `parameters`
    completion,    \* gptapi's local `completion`
    apiCalls,      \* create_completion calls made in this invocation
    outcome,       \* how the invocation ended
    result         \* the value gptapi returned

vars == <<impl, sdk, disk, cache, opens, edits, directLoads, logConfigured,
          invocations, pc, prompt, config, client, stack, preparers, discarded,
          parameters, completion, apiCalls, outcome, result>>

procVars == <<cache, opens, logConfigured>>
envVars == <<impl, sdk, disk, edits, directLoads, invocations>>
callVars == <<prompt, config, client, stack, preparers, discarded, parameters,
              completion, apiCalls, result>>

----------------------------------------------------------------------------
(* Bounds of the model *)

MaxCalls == 2
MaxEdits == 1
MaxDirectLoads == 1
CharsPerToken == 4

(* Program constants *)

MAX_INPUT_TOKENS == 120000
CUTS == 3

CREDENTIALS_KEY == "openai_api"

----------------------------------------------------------------------------
(* Python values *)

PyNone == [py_none |-> TRUE]
Str(s) == [str |-> s]
Unassigned == [unassigned |-> TRUE]

Has(d, k) == k \in DOMAIN d

\* dict.get(k, default)
Get(d, k, default) == IF Has(d, k) THEN d[k] ELSE default

\* Python truthiness of the values the model uses
PyBool(b) == [bool |-> b]

Truthy(v) ==
    /\ v # PyNone
    /\ v # Str("")
    /\ v # PyBool(FALSE)

----------------------------------------------------------------------------
(* Texts *)

Text(src, lo, hi) == [src |-> src, lo |-> lo, hi |-> hi]
TextLen(t) == t.hi - t.lo

Min(a, b) == IF a < b THEN a ELSE b
Max(a, b) == IF a > b THEN a ELSE b

\* t[start:stop] for start, stop >= 0, clamped as Python clamps a slice
Slice(t, start, stop) ==
    LET a == Min(start, TextLen(t))
        b == Min(stop, TextLen(t))
    IN  Text(t.src, t.lo + a, t.lo + Max(a, b))

\* len(encoding.encode(text))
encode_len(t) == (TextLen(t) + CharsPerToken - 1) \div CharsPerToken

\* t is a proper prefix of u
ProperPrefix(t, u) == t.src = u.src /\ t.lo = u.lo /\ t.hi < u.hi /\ t.lo <= t.hi

----------------------------------------------------------------------------
(* Profiles and credentials: the parsed YAML documents *)

SystemPrompt == Text("system_prompt", 0, 40)

Params(maxTokens) ==
    [max_tokens |-> maxTokens, temperature |-> 0, top_p |-> 1, n |-> 1]

ParamsWithStop(maxTokens) ==
    [max_tokens |-> maxTokens, temperature |-> 0, top_p |-> 1, n |-> 1,
     stop |-> Str("END"), frequency_penalty |-> 1]

\* a schema that gives neither `required` nor `additionalProperties`
BareSchema == [properties |-> Str("a")]
FullSchema == [type |-> Str("object"), properties |-> Str("a"),
               required |-> Str("a"), additionalProperties |-> PyBool(TRUE)]

BaseProfile ==
    [model |-> Str("gpt-4"),
     system_prompt |-> SystemPrompt,
     parameters |-> Params(4096),
     structured_output |-> [enable |-> PyBool(FALSE)],
     logging |-> [enable |-> PyBool(TRUE), log_file |-> Str("logs/api.log"),
                  log_level |-> Str("DEBUG")],
     credentials_file |-> Str("keys.yaml")]

\* d without key k
Without(d, k) == [x \in DOMAIN d \ {k} |-> d[x]]

ProfileKeys == DOMAIN BaseProfile

Structured(schema) ==
    [BaseProfile EXCEPT !.structured_output =
        [enable |-> PyBool(TRUE), name |-> Str("x"), schema |-> schema]]

Profiles ==
    {BaseProfile,
     [BaseProfile EXCEPT !.parameters = ParamsWithStop(8)],
     [BaseProfile EXCEPT !.logging = [enable |-> PyBool(FALSE)]],
     Structured(BareSchema),
     Structured(FullSchema),
     [BaseProfile EXCEPT !.structured_output = [enable |-> PyBool(TRUE)]]}
    \cup {Without(BaseProfile, k) : k \in ProfileKeys}

Credentials == {[openai_api |-> Str("sk-secret")], [other_key |-> Str("x")]}

ProfilePath == "profiles/profile.yaml"
CredentialsPath == "keys.yaml"
Paths == {ProfilePath, CredentialsPath}

\* what open() and yaml.safe_load find at a path
Missing == [kind |-> "missing"]
Malformed == [kind |-> "malformed"]
Yaml(v) == [kind |-> "yaml", value |-> v]

FileStates(p) ==
    {Missing, Malformed, Yaml(PyNone)}
    \cup {Yaml(v) : v \in IF p = ProfilePath THEN Profiles ELSE Credentials}

\* what an edit leaves at a path
EditStates(p) ==
    {Missing, Yaml(IF p = ProfilePath THEN Structured(BareSchema)
                   ELSE [openai_api |-> Str("sk-rotated")])}

NotCached == [cached |-> FALSE]
Cached(v) == [cached |-> TRUE, value |-> v]

----------------------------------------------------------------------------
(* Exceptions and the handler chain of gptapi() *)

NoExc == [cls |-> "none", text |-> ""]
Exc(cls, text) == [cls |-> cls, text |-> text]

KeyError(k) == Exc("KeyError", k)
TypeError == Exc("TypeError", "'NoneType' object is not subscriptable")
SysExit(msg) == Exc("SystemExit", msg)
CustomException(msg) == Exc("CustomException", msg)

MsgConfig == "Failed to load configuration. Exiting."
MsgTokenLimit == "Token limit exceeded."
MsgTooLarge == "Input too large, and maximum cuts exceeded."
MsgEmpty == "Received empty response from API."
MsgValidation == "Validation error. Please check the structured output schema."
MsgContext == "Token context length exceeded. Please adjust the input."
MsgApiOld == "Unexpected API error: "
MsgUnexpected == "An unexpected error occurred. Please try again later."
MsgNoOpenaiError == "module 'openai' has no attribute 'error'"

\* A termination message is the sequence of its parts: the literal text and
\* the values formatted into it.
Mentions(msg, word) == \E i \in 1..Len(msg) : msg[i] = word

NoOutcome == [kind |-> "none", msg |-> <<>>, cause |-> NoExc]
Exited(msg, e) == [kind |-> "SystemExit", msg |-> msg, cause |-> e]
Raised(cls, msg, e) == [kind |-> "raised", cls |-> cls, msg |-> msg, cause |-> e]
Returned == [kind |-> "returned", msg |-> <<>>, cause |-> NoExc]

\* gptapi-old.py: except ValidationError / CustomException / BadRequestError / Exception
HandleOld(e) ==
    CASE e.cls = "SystemExit" -> Exited(<<e.text>>, e)
      [] e.cls = "ValidationError" -> Exited(<<MsgValidation>>, e)
      [] e.cls = "CustomException" -> Exited(<<e.text>>, e)
      [] e.cls = "BadRequestError" ->
            IF e.text = "context_length_exceeded"
            THEN Exited(<<MsgContext>>, e)
            ELSE Exited(<<MsgApiOld, e.text>>, e)
      [] OTHER -> Exited(<<MsgUnexpected>>, e)

\* gptapi.py: except ValidationError / CustomException /
\* openai.error.InvalidRequestError / Exception.  The class of a clause is
\* looked up when an exception gets as far as that clause, whatever the
\* exception is (SystemExit included).  openai 1.x has no openai.error: the
\* lookup raises AttributeError, and that leaves gptapi() in place of the
\* exception being handled.  With openai 0.x the lookup succeeds; the only
\* exceptions that get there (no client can be made with 0.x) are SystemExit,
\* which no clause catches, and the errors that `except Exception` catches.
HandleNew(e, s) ==
    CASE e.cls = "ValidationError" -> Exited(<<MsgValidation>>, e)
      [] e.cls = "CustomException" -> Exited(<<e.text>>, e)
      [] OTHER ->
            IF s = "v1"
            THEN Raised("AttributeError", <<MsgNoOpenaiError>>, e)
            ELSE IF e.cls = "SystemExit"
                 THEN Exited(<<e.text>>, e)
                 ELSE Exited(<<MsgUnexpected>>, e)

Handle(e) == IF impl = "old" THEN HandleOld(e) ELSE HandleNew(e, sdk)

----------------------------------------------------------------------------
(* ConfigurationManager *)

\* load_file: open() and yaml.safe_load; a YAMLError becomes SystemExit
load_file(p) ==
    CASE disk[p].kind = "missing" -> [exc |-> Exc("FileNotFoundError", p), value |-> PyNone]
      [] disk[p].kind = "malformed" -> [exc |-> SysExit(MsgConfig), value |-> PyNone]
      [] OTHER -> [exc |-> NoExc, value |-> disk[p].value]

\* mutant: load_yaml reads the file on every call
load_yaml_nocache(c, o, p) ==
    LET f == load_file(p)
    IN  [exc |-> f.exc, value |-> f.value,
         cache |-> IF f.exc = NoExc THEN [c EXCEPT ![p] = Cached(f.value)] ELSE c,
         opens |-> [o EXCEPT ![p] = @ + 1]]

\* load_yaml on the cache c and the open() counts o: the value or the
\* exception, and the cache and counts afterwards
load_yaml(c, o, p) ==
    IF ~c[p].cached
    THEN LET f == load_file(p)
         IN  [exc |-> f.exc, value |-> f.value,
              cache |-> IF f.exc = NoExc THEN [c EXCEPT ![p] = Cached(f.value)] ELSE c,
              opens |-> [o EXCEPT ![p] = @ + 1]]
    ELSE [exc |-> NoExc, value |-> c[p].value, cache |-> c, opens |-> o]

----------------------------------------------------------------------------
(* APICallPreparer.prepare_parameters *)

EmptyDict == [k \in {} |-> PyNone]

FUNCTION_NAME == "format_response"
FUNCTION_DESCRIPTION == "Formats the response according to the specified schema."

Raise(e) == [tag |-> "raise", exc |-> e]
Return(v) == [tag |-> "return", value |-> v]
Split == [tag |-> "split"]

\* mutant: the prompt loses its last character (a strip of the trailing newline)
Messages_strip(cfg, p) ==
    <<[role |-> "system", content |-> cfg.system_prompt],
      [role |-> "user", content |-> Slice(p, 0, TextLen(p) - 1)]>>

Messages(cfg, p) ==
    <<[role |-> "system", content |-> cfg.system_prompt],
      [role |-> "user", content |-> p]>>

\* sum([len(encoding.encode(m['content'])) for m in messages])
TotalTokens(messages) ==
    encode_len(messages[1].content) + encode_len(messages[2].content)

\* config.get('structured_output', {}).get('enable')
StructuredEnabled(cfg) ==
    Truthy(Get(Get(cfg, "structured_output", EmptyDict), "enable", PyNone))

\* the dict literal `parameters`
SamplingParameters(cfg, messages) ==
    [model |-> cfg.model,
     messages |-> messages,
     max_tokens |-> cfg.parameters.max_tokens,
     temperature |-> cfg.parameters.temperature,
     top_p |-> cfg.parameters.top_p,
     n |-> cfg.parameters.n,
     stop |-> Get(cfg.parameters, "stop", PyNone),
     frequency_penalty |-> Get(cfg.parameters, "frequency_penalty", 0),
     presence_penalty |-> Get(cfg.parameters, "presence_penalty", 0)]

\* mutant: the schema is completed with required and additionalProperties
WithFunctions_normalized(params, schema) ==
    [functions |->
        <<[name |-> FUNCTION_NAME, description |-> FUNCTION_DESCRIPTION,
           parameters |-> schema @@ [required |-> <<>>,
                                     additionalProperties |-> PyBool(FALSE)]]>>,
     function_call |-> [name |-> FUNCTION_NAME]] @@ params

\* parameters.update({"functions": ..., "function_call": ...})
WithFunctions(params, schema) ==
    [functions |->
        <<[name |-> FUNCTION_NAME, description |-> FUNCTION_DESCRIPTION,
           parameters |-> schema]>>,
     function_call |-> [name |-> FUNCTION_NAME]] @@ params

\* mutant: the functions are attached whenever structured_output is present
BuildRequest_present(cfg, messages) ==
    IF ~Has(cfg, "parameters") THEN Raise(KeyError("parameters"))
    ELSE IF Has(cfg, "structured_output")
    THEN Return([functions |->
                    <<[name |-> FUNCTION_NAME, description |-> FUNCTION_DESCRIPTION,
                       parameters |-> Get(cfg.structured_output, "schema", PyNone)]>>,
                 function_call |-> [name |-> FUNCTION_NAME]]
                @@ [model |-> cfg.model, messages |-> messages,
                    max_tokens |-> cfg.parameters.max_tokens,
                    temperature |-> cfg.parameters.temperature,
                    top_p |-> cfg.parameters.top_p, n |-> cfg.parameters.n,
                    stop |-> Get(cfg.parameters, "stop", PyNone),
                    frequency_penalty |-> Get(cfg.parameters, "frequency_penalty", 0),
                    presence_penalty |-> Get(cfg.parameters, "presence_penalty", 0)])
    ELSE Return([model |-> cfg.model, messages |-> messages,
                 max_tokens |-> cfg.parameters.max_tokens,
                 temperature |-> cfg.parameters.temperature,
                 top_p |-> cfg.parameters.top_p, n |-> cfg.parameters.n,
                 stop |-> Get(cfg.parameters, "stop", PyNone),
                 frequency_penalty |-> Get(cfg.parameters, "frequency_penalty", 0),
                 presence_penalty |-> Get(cfg.parameters, "presence_penalty", 0)])

\* from the dict literal to `return parameters`
BuildRequest(cfg, messages) ==
    IF ~Has(cfg, "parameters") THEN Raise(KeyError("parameters"))
    ELSE IF StructuredEnabled(cfg)
    THEN IF ~Has(cfg.structured_output, "schema") THEN Raise(KeyError("schema"))
         ELSE Return(WithFunctions(SamplingParameters(cfg, messages),
                                   cfg.structured_output.schema))
    ELSE Return(SamplingParameters(cfg, messages))

\* mutant: a profile without `model` gets a default model
prepare_parameters_new_default_model(cfg, p) ==
    IF ~Has(cfg, "system_prompt") THEN Raise(KeyError("system_prompt"))
    ELSE IF ~Has(cfg, "parameters") THEN Raise(KeyError("parameters"))
    ELSE IF TotalTokens(Messages(cfg, p)) > cfg.parameters.max_tokens
    THEN Raise(CustomException(MsgTokenLimit))
    ELSE BuildRequest([model |-> Get(cfg, "model", Str("gpt-3.5-turbo"))] @@ cfg,
                      Messages(cfg, p))

\* mutant: prepare_parameters does not compare the estimate with max_tokens
prepare_parameters_new_unchecked(cfg, p) ==
    IF ~Has(cfg, "system_prompt") THEN Raise(KeyError("system_prompt"))
    ELSE IF ~Has(cfg, "model") THEN Raise(KeyError("model"))
    ELSE IF ~Has(cfg, "parameters") THEN Raise(KeyError("parameters"))
    ELSE BuildRequest(cfg, Messages(cfg, p))

\* gptapi.py: prepare_parameters
prepare_parameters_new(cfg, p) ==
    IF ~Has(cfg, "system_prompt") THEN Raise(KeyError("system_prompt"))
    ELSE IF ~Has(cfg, "model") THEN Raise(KeyError("model"))
    ELSE IF ~Has(cfg, "parameters") THEN Raise(KeyError("parameters"))
    ELSE IF TotalTokens(Messages(cfg, p)) > cfg.parameters.max_tokens
    THEN Raise(CustomException(MsgTokenLimit))
    ELSE BuildRequest(cfg, Messages(cfg, p))

\* mutant: the overlap is 55% of the prompt instead of 5%
overlap_wide(p) == (TextLen(p) * 55) \div 100

\* gptapi-old.py: the cut of a prompt in two halves with 5% overlap
midpoint(p) == TextLen(p) \div 2
overlap(p) == (TextLen(p) * 5) \div 100
start_cut(p) == Max(midpoint(p) - overlap(p), 0)
end_cut(p) == Min(midpoint(p) + overlap(p), TextLen(p))
first_half(p) == Slice(p, 0, end_cut(p))
second_half(p) == Slice(p, start_cut(p), TextLen(p))

\* mutant: the ceiling of cuts is tested with > instead of >=
CutsExhausted_late(cut) == cut > CUTS

\* cut_attempt >= CUTS
CutsExhausted(cut) == cut >= CUTS

\* gptapi-old.py: one activation of prepare_parameters up to its first
\* recursive call: it raises, returns a request, or goes on to split
prepare_parameters_old(cfg, p, cut) ==
    IF ~Has(cfg, "system_prompt") THEN Raise(KeyError("system_prompt"))
    ELSE IF ~Has(cfg, "model") THEN Raise(KeyError("model"))
    ELSE IF TotalTokens(Messages(cfg, p)) > MAX_INPUT_TOKENS
    THEN IF CutsExhausted(cut)
         THEN Raise(CustomException(MsgTooLarge))
         ELSE Split
    ELSE BuildRequest(cfg, Messages(cfg, p))

\* an activation of prepare_parameters of gptapi-old.py
Frame(p, cut) ==
    [prompt |-> p, cut_attempt |-> cut, phase |-> "start",
     first_parameters |-> Unassigned]

Top(s) == s[Len(s)]
Pop(s) == SubSeq(s, 1, Len(s) - 1)

\* the preparer made for the first half: APICallPreparer(config, first_half, cut_attempt + 1)
FirstChild(f) == Frame(first_half(f.prompt), f.cut_attempt + 1)
SecondChild(f) == Frame(second_half(f.prompt), f.cut_attempt + 1)

\* mutant: a split activation returns the request of its second half
ChosenParameters_second(first, second) == second

\* which of the two prepared requests a split activation returns
ChosenParameters(first, second) == first

\* an activation returns v to the frames s below it: a caller waiting for its
\* first half goes on to the second half; a caller waiting for its second
\* half returns in turn
RECURSIVE Deliver(_, _, _)
Deliver(s, v, d) ==
    IF s = <<>>
    THEN [done |-> TRUE, value |-> v, stack |-> s, discarded |-> d]
    ELSE IF Top(s).phase = "first"
    THEN [done |-> FALSE, value |-> Unassigned,
          stack |-> Append(Append(Pop(s),
                        [Top(s) EXCEPT !.phase = "second", !.first_parameters = v]),
                        SecondChild(Top(s))),
          discarded |-> d]
    ELSE Deliver(Pop(s), ChosenParameters(Top(s).first_parameters, v), d \cup {v})

----------------------------------------------------------------------------
(* The completion capability (external) *)

\* completion.choices[0].message
Message(content, function_call) ==
    [content |-> content, function_call |-> function_call]

FunctionCall(arguments) == [name |-> FUNCTION_NAME, arguments |-> arguments]

Responses ==
    {Message(Str("hello"), PyNone),
     Message(Str(""), PyNone),
     Message(PyNone, PyNone),
     Message(PyNone, FunctionCall(Str("{a: 1}"))),
     Message(PyNone, FunctionCall(Str("")))}

\* what client.chat.completions.create raises
ApiErrors ==
    {Exc("BadRequestError", "context_length_exceeded"),
     Exc("BadRequestError", "invalid_request"),
     Exc("APIConnectionError", "Connection error."),
     Exc("ValidationError", "validation")}

\* the configured field of the response: raises when the function-call
\* object is missing
ExtractField(cfg, c) ==
    IF c = Unassigned
    THEN Raise(Exc("UnboundLocalError", "completion"))
    ELSE IF StructuredEnabled(cfg)
    THEN IF c.function_call = PyNone
         THEN Raise(Exc("AttributeError", "'NoneType' object has no attribute 'arguments'"))
         ELSE Return(c.function_call.arguments)
    ELSE Return(c.content)

\* from `result = ...` to `return result`
extract_result(cfg, c) ==
    LET r == ExtractField(cfg, c)
    IN  IF r.tag = "raise" THEN r
        ELSE IF ~Truthy(r.value) THEN Raise(CustomException(MsgEmpty))
        ELSE r

----------------------------------------------------------------------------
(* The process *)

PromptLens == {16344, 16345, 600000, 2884816, 2884817, 4000000}
Prompts == {Text("prompt", 0, n) : n \in PromptLens}

NoConfig == [no_config |-> TRUE]

Init ==
    /\ impl \in {"new", "old"}
    /\ sdk \in {"v0", "v1"}
    \* gptapi-old.py does `from openai import BadRequestError`, which only
    \* openai 1.x provides: with 0.x the module cannot be imported at all
    /\ impl = "old" => sdk = "v1"
    /\ disk \in [Paths -> UNION {FileStates(p) : p \in Paths}]
    /\ \A p \in Paths : disk[p] \in FileStates(p)
    /\ cache = [p \in Paths |-> NotCached]
    /\ opens = [p \in Paths |-> 0]
    /\ edits = 0
    /\ directLoads = 0
    /\ logConfigured = FALSE
    /\ invocations = 0
    /\ pc = "idle"
    /\ prompt = Text("prompt", 0, 0)
    /\ config = NoConfig
    /\ client = FALSE
    /\ stack = <<>>
    /\ preparers = 0
    /\ discarded = {}
    /\ parameters = Unassigned
    /\ completion = Unassigned
    /\ apiCalls = 0
    /\ outcome = NoOutcome
    /\ result = Unassigned

\* an exception leaves the try block of gptapi()
Fail(e) ==
    /\ outcome' = Handle(e)
    /\ pc' = "done"

\* the caller calls gptapi(profile, prompt)
Call(p) ==
    /\ pc \in {"idle", "done"}
    /\ invocations < MaxCalls
    /\ invocations' = invocations + 1
    /\ pc' = "load_profile"
    /\ prompt' = p
    /\ config' = NoConfig
    /\ client' = FALSE
    /\ stack' = <<>>
    /\ preparers' = 0
    /\ discarded' = {}
    /\ parameters' = Unassigned
    /\ completion' = Unassigned
    /\ apiCalls' = 0
    /\ outcome' = NoOutcome
    /\ result' = Unassigned
    /\ UNCHANGED <<impl, sdk, disk, edits, directLoads, procVars>>

\* config = load_yaml(profile_path); if config['logging']['enable']: setup_logging(...)
LoadProfile ==
    /\ pc = "load_profile"
    /\ LET l == load_yaml(cache, opens, ProfilePath)
       IN  /\ cache' = l.cache
           /\ opens' = l.opens
           /\ IF l.exc # NoExc
              THEN Fail(l.exc) /\ UNCHANGED <<config, logConfigured>>
              ELSE /\ config' = l.value
                   /\ IF l.value = PyNone
                      THEN Fail(TypeError) /\ UNCHANGED logConfigured
                      ELSE IF ~Has(l.value, "logging")
                      THEN Fail(KeyError("logging")) /\ UNCHANGED logConfigured
                      ELSE /\ logConfigured' =
                                (logConfigured \/ Truthy(l.value.logging.enable))
                           /\ pc' = "make_client"
                           /\ UNCHANGED outcome
    /\ UNCHANGED <<envVars, prompt, client, stack, preparers, discarded,
                   parameters, completion, apiCalls, result>>

\* openai.OpenAI(api_key=...): the class exists in openai 1.x only
NewClient(s) ==
    IF s = "v1" THEN NoExc
    ELSE Exc("AttributeError", "module 'openai' has no attribute 'OpenAI'")

\* openai_client = OpenAIClientManager(config['credentials_file']);
\* api_preparer = APICallPreparer(config, prompt)
MakeClient ==
    /\ pc = "make_client"
    /\ IF ~Has(config, "credentials_file")
       THEN Fail(KeyError("credentials_file"))
            /\ UNCHANGED <<cache, opens, client, stack, preparers>>
       ELSE LET l == load_yaml(cache, opens, CredentialsPath)
            IN  /\ cache' = l.cache
                /\ opens' = l.opens
                /\ IF l.exc # NoExc
                   THEN Fail(l.exc) /\ UNCHANGED <<client, stack, preparers>>
                   ELSE IF l.value = PyNone
                   THEN Fail(TypeError) /\ UNCHANGED <<client, stack, preparers>>
                   ELSE IF ~Has(l.value, CREDENTIALS_KEY)
                   THEN Fail(KeyError(CREDENTIALS_KEY))
                        /\ UNCHANGED <<client, stack, preparers>>
                   ELSE IF NewClient(sdk) # NoExc
                   THEN Fail(NewClient(sdk)) /\ UNCHANGED <<client, stack, preparers>>
                   ELSE /\ client' = TRUE
                        /\ preparers' = 1
                        /\ stack' = IF impl = "old" THEN <<Frame(prompt, 0)>> ELSE <<>>
                        /\ pc' = "prepare"
                        /\ UNCHANGED outcome
    /\ UNCHANGED <<envVars, logConfigured, prompt, config, discarded,
                   parameters, completion, apiCalls, result>>

\* gptapi.py: parameters = api_preparer.prepare_parameters()
PrepareNew ==
    /\ pc = "prepare"
    /\ impl = "new"
    /\ LET r == prepare_parameters_new(config, prompt)
       IN  IF r.tag = "raise"
           THEN Fail(r.exc) /\ UNCHANGED parameters
           ELSE /\ parameters' = r.value
                /\ pc' = "invoke"
                /\ UNCHANGED outcome
    /\ UNCHANGED <<envVars, procVars, prompt, config, client, stack, preparers,
                   discarded, completion, apiCalls, result>>

\* gptapi-old.py: the running activation raises; nothing catches it before gptapi()
OldPrepareRaise ==
    /\ pc = "prepare"
    /\ impl = "old"
    /\ LET r == prepare_parameters_old(config, Top(stack).prompt, Top(stack).cut_attempt)
       IN  /\ r.tag = "raise"
           /\ Fail(r.exc)
    /\ stack' = <<>>
    /\ UNCHANGED <<envVars, procVars, prompt, config, client, preparers,
                   discarded, parameters, completion, apiCalls, result>>

\* gptapi-old.py: the running activation cuts its prompt, creates both
\* preparers and calls prepare_parameters of the first
OldPrepareSplit ==
    /\ pc = "prepare"
    /\ impl = "old"
    /\ prepare_parameters_old(config, Top(stack).prompt, Top(stack).cut_attempt).tag = "split"
    /\ stack' = Append(Append(Pop(stack), [Top(stack) EXCEPT !.phase = "first"]),
                       FirstChild(Top(stack)))
    /\ preparers' = preparers + 2
    /\ UNCHANGED <<envVars, procVars, pc, prompt, config, client, discarded,
                   parameters, completion, apiCalls, outcome, result>>

\* gptapi-old.py: the running activation builds its request and returns it
OldPrepareReturn ==
    /\ pc = "prepare"
    /\ impl = "old"
    /\ LET r == prepare_parameters_old(config, Top(stack).prompt, Top(stack).cut_attempt)
       IN  /\ r.tag = "return"
           /\ LET d == Deliver(Pop(stack), r.value, discarded)
              IN  /\ stack' = d.stack
                  /\ discarded' = d.discarded
                  /\ parameters' = d.value
                  /\ pc' = IF d.done THEN "invoke" ELSE "prepare"
    /\ UNCHANGED <<envVars, procVars, prompt, config, client, preparers,
                   completion, apiCalls, outcome, result>>

\* mutant: a failed completion call is tried again
CompletionFailed_retry(e) ==
    /\ pc' = "invoke"
    /\ UNCHANGED outcome

\* create_completion raises: the exception goes to the handlers of gptapi()
CompletionFailed(e) == Fail(e)

\* gptapi.py: the token check before the call; the branch that logs
\* "splitting the request into smaller batches" makes no call
SkipsCall ==
    /\ impl = "new"
    /\ TotalTokens(parameters.messages) > config.parameters.max_tokens

\* completion = openai_client.create_completion(parameters)
CreateCompletion ==
    /\ pc = "invoke"
    /\ IF SkipsCall
       THEN /\ pc' = "extract"
            /\ UNCHANGED <<completion, apiCalls, outcome>>
       ELSE /\ apiCalls' = apiCalls + 1
            /\ \/ \E r \in Responses :
                    /\ completion' = r
                    /\ pc' = "extract"
                    /\ UNCHANGED outcome
               \/ \E e \in ApiErrors :
                    /\ CompletionFailed(e)
                    /\ UNCHANGED completion
    /\ UNCHANGED <<envVars, procVars, prompt, config, client, stack, preparers,
                   discarded, parameters, result>>

\* result = ...; if not result: raise CustomException(...); return result
Extract ==
    /\ pc = "extract"
    /\ LET r == extract_result(config, completion)
       IN  IF r.tag = "raise"
           THEN Fail(r.exc) /\ UNCHANGED result
           ELSE /\ result' = r.value
                /\ outcome' = Returned
                /\ pc' = "done"
    /\ UNCHANGED <<envVars, procVars, prompt, config, client, stack, preparers,
                   discarded, parameters, completion, apiCalls>>

\* the caller itself calls ConfigurationManager.load_yaml(p)
LoadYamlDirect(p) ==
    /\ pc \in {"idle", "done"}
    /\ directLoads < MaxDirectLoads
    /\ directLoads' = directLoads + 1
    /\ LET l == load_yaml(cache, opens, p)
       IN  /\ cache' = l.cache
           /\ opens' = l.opens
    /\ UNCHANGED <<impl, sdk, disk, edits, invocations, logConfigured, pc,
                   callVars, outcome>>

\* somebody rewrites or removes a configuration file
EditFile(p, f) ==
    /\ pc \in {"idle", "done"}
    /\ edits < MaxEdits
    /\ f # disk[p]
    /\ disk' = [disk EXCEPT ![p] = f]
    /\ edits' = edits + 1
    /\ UNCHANGED <<impl, sdk, directLoads, invocations, procVars, pc, callVars,
                   outcome>>

Next ==
    \/ \E p \in Prompts : Call(p)
    \/ LoadProfile
    \/ MakeClient
    \/ PrepareNew
    \/ OldPrepareRaise
    \/ OldPrepareSplit
    \/ OldPrepareReturn
    \/ CreateCompletion
    \/ Extract
    \/ \E p \in Paths : LoadYamlDirect(p)
    \/ \E p \in Paths : \E f \in EditStates(p) : EditFile(p, f)

Spec == Init /\ [][Next]_vars

\* the steps of a running invocation: synchronous code, which goes on running
Running ==
    \/ LoadProfile
    \/ MakeClient
    \/ PrepareNew
    \/ OldPrepareRaise
    \/ OldPrepareSplit
    \/ OldPrepareReturn
    \/ CreateCompletion
    \/ Extract

\* The process as far as the claims on termination need it: the calls of
\* gptapi() and their steps.  Files are edited and load_yaml is called by the
\* caller between invocations only, and Init already ranges over every file
\* state, so leaving these two out removes no behaviour of an invocation.
FairNext ==
    \/ \E p \in Prompts : Call(p)
    \/ Running

FairSpec == Init /\ [][FairNext]_vars /\ WF_vars(Running)

\* example.py main(): what the entry point prints for this invocation
Printed ==
    CASE outcome.kind = "returned" -> result
      [] outcome.kind = "raised" -> Str("An error occurred. Please check the logs for more details.")
      [] OTHER -> PyNone

----------------------------------------------------------------------------
(* The request builder: claims C1 to C3 *)

RequestBuilt == parameters # Unassigned

UserContent == parameters.messages[2].content

\* the estimate of the caller's whole prompt exceeds the ceiling of gptapi-old.py
PromptIsCut ==
    /\ impl = "old"
    /\ TotalTokens(<<[role |-> "system", content |-> config.system_prompt],
                     [role |-> "user", content |-> prompt]>>) > MAX_INPUT_TOKENS

\* C1 as stated: every request that prepare_parameters returns has exactly
\* the messages <<system: the profile's system_prompt, user: the caller's
\* prompt verbatim>>.
C1_Verbatim ==
    RequestBuilt =>
        parameters.messages =
            <<[role |-> "system", content |-> config.system_prompt],
              [role |-> "user", content |-> prompt]>>

\* C1 amended: every request that prepare_parameters returns has exactly two
\* messages, system then user; the system content is the profile's
\* system_prompt; the user content is the caller's prompt verbatim, except
\* that gptapi-old.py, when the estimate of the prompt exceeds 120,000
\* tokens, puts a proper prefix of the prompt there.
C1_VerbatimUnlessCut ==
    RequestBuilt =>
        /\ Len(parameters.messages) = 2
        /\ parameters.messages[1] = [role |-> "system", content |-> config.system_prompt]
        /\ parameters.messages[2].role = "user"
        /\ DOMAIN parameters.messages[2] = {"role", "content"}
        /\ IF PromptIsCut
           THEN ProperPrefix(UserContent, prompt)
           ELSE UserContent = prompt

C1_Witness ==
    /\ RequestBuilt
    /\ ~PromptIsCut
    /\ TextLen(prompt) > 0
    /\ UserContent = prompt

OmitsNormalizedFields(cfg) ==
    /\ Has(cfg, "structured_output")
    /\ Has(cfg.structured_output, "enable")
    /\ cfg.structured_output.enable = PyBool(TRUE)
    /\ Has(cfg.structured_output, "schema")
    /\ ~Has(cfg.structured_output.schema, "required")
    /\ ~Has(cfg.structured_output.schema, "additionalProperties")

SamplingKeys ==
    {"model", "messages", "max_tokens", "temperature", "top_p", "n", "stop",
     "frequency_penalty", "presence_penalty"}

EnableIsTrue(cfg) ==
    /\ Has(cfg, "structured_output")
    /\ Has(cfg.structured_output, "enable")
    /\ cfg.structured_output.enable = PyBool(TRUE)

\* C3: a built request has a key beyond model, messages and the sampling
\* parameters if and only if the profile's structured_output.enable is true;
\* with enable false or structured_output absent it has none.
C3_DescriptorIffEnabled ==
    RequestBuilt =>
        /\ SamplingKeys \subseteq DOMAIN parameters
        /\ (DOMAIN parameters # SamplingKeys) <=> EnableIsTrue(config)

C3_Witness ==
    /\ RequestBuilt
    /\ Has(config, "structured_output")
    /\ config.structured_output.enable = PyBool(FALSE)
    /\ DOMAIN parameters = SamplingKeys

----------------------------------------------------------------------------
(* Result extraction and errors: claims C4, C5, C7 *)

Finished == pc = "done"

\* the completion call of this invocation returned a response
CallSucceeded == completion # Unassigned

\* the configured field of the response is "", None or absent
FieldEmpty ==
    IF EnableIsTrue(config)
    THEN \/ completion.function_call = PyNone
         \/ completion.function_call.arguments \in {Str(""), PyNone}
    ELSE completion.content \in {Str(""), PyNone}

\* C4: after a successful completion call, when the configured field of the
\* response is the empty string, null or absent (structured mode: also a
\* response with no function-call object), the invocation ends with the
\* termination 'Received empty response from API.' and returns no value.
C4_EmptyResult ==
    (Finished /\ CallSucceeded /\ FieldEmpty) =>
        /\ outcome.kind = "SystemExit"
        /\ outcome.msg = <<MsgEmpty>>
        /\ result = Unassigned

Loaded == config # NoConfig /\ config # PyNone

\* the fields the data model of the specification calls required
RequiredFields == {"model", "system_prompt", "parameters", "structured_output"}

MissingRequired == RequiredFields \ DOMAIN config

C7_EveryFailureExits ==
    (Finished /\ outcome.kind # "returned") =>
        /\ outcome.kind = "SystemExit"
        /\ result = Unassigned
        /\ Printed = PyNone

----------------------------------------------------------------------------
(* The split recursion of gptapi-old.py: claims C6, C10 *)

\* the token estimate of the messages an activation builds for the text p
EstimateOf(p) == encode_len(config.system_prompt) + encode_len(p)

Estimable == Has(config, "system_prompt") /\ Has(config, "model")

\* 2^n
RECURSIVE Pow2(_)
Pow2(n) == IF n = 0 THEN 1 ELSE 2 * Pow2(n - 1)

C6_Frames ==
    impl = "old" =>
        /\ Len(stack) <= CUTS + 1
        /\ preparers <= Pow2(CUTS + 1) - 1
        /\ \A i \in 1..Len(stack) :
              /\ stack[i].cut_attempt = i - 1
              /\ stack[i].cut_attempt <= CUTS
              /\ stack[i].phase # "start" =>
                    /\ EstimateOf(stack[i].prompt) > MAX_INPUT_TOKENS
                    /\ stack[i].cut_attempt < CUTS
        /\ pc = "prepare" => (stack # <<>> /\ Top(stack).phase = "start")

C6_TooLargeAborts ==
    (/\ pc = "prepare"
     /\ impl = "old"
     /\ Estimable
     /\ Top(stack).cut_attempt = CUTS
     /\ EstimateOf(Top(stack).prompt) > MAX_INPUT_TOKENS)
    => /\ pc' = "done"
       /\ outcome'.kind = "SystemExit"
       /\ outcome'.msg = <<MsgTooLarge>>
       /\ stack' = <<>>
       /\ parameters' = Unassigned

\* C6: started with cut_attempt = 0, the split recursion of
\* prepare_parameters is depth-bounded and terminates: an activation is split
\* only when its estimate exceeds 120,000 and its cut_attempt is below 3, no
\* preparer has cut_attempt above 3 (at most 15 are created), a piece that
\* still exceeds the ceiling at cut_attempt = 3 raises the too-large error
\* and that aborts the whole preparation, and every preparation ends.
C6_DepthBounded ==
    /\ []C6_Frames
    /\ [][C6_TooLargeAborts]_vars
    /\ (pc = "prepare") ~> (pc # "prepare")

C6_Witness ==
    /\ impl = "old"
    /\ Finished
    /\ preparers = 15
    /\ outcome.msg = <<MsgTooLarge>>

\* the first half taken k times
RECURSIVE FirstHalves(_, _)
FirstHalves(p, k) ==
    IF k = 0 THEN p
    ELSE LET q == FirstHalves(p, k - 1)
             len == q.hi - q.lo
             cut == IF (len \div 2) + ((len * 5) \div 100) < len
                    THEN (len \div 2) + ((len * 5) \div 100) ELSE len
         IN  [src |-> q.src, lo |-> q.lo, hi |-> q.lo + cut]

\* C10: when the estimate of the prompt exceeds the ceiling and
\* prepare_parameters returns, the request is the one prepared for the first
\* half, recursively: its user content is a proper prefix of the prompt, the
\* first of the repeated first halves that fits; the requests prepared for
\* the second halves are dropped and are not the result.
C10_FirstHalfOnly ==
    (RequestBuilt /\ PromptIsCut) =>
        /\ ProperPrefix(UserContent, prompt)
        /\ \E k \in 1..CUTS :
              /\ UserContent = FirstHalves(prompt, k)
              /\ EstimateOf(FirstHalves(prompt, k)) <= MAX_INPUT_TOKENS
              /\ \A j \in 0..(k - 1) :
                    EstimateOf(FirstHalves(prompt, j)) > MAX_INPUT_TOKENS
        /\ discarded # {}
        /\ parameters \notin discarded
        /\ \A d \in discarded : d.messages[2].content # UserContent

C10_Witness ==
    /\ RequestBuilt
    /\ PromptIsCut
    /\ UserContent = FirstHalves(prompt, 3)
    /\ Cardinality(discarded) > 1

----------------------------------------------------------------------------
(* One call, one read: claims C8, C9 *)

\* C8: within one invocation the completion capability is called at most
\* once, only after the profile and the credentials were loaded and the
\* request was built, and never again after a call, failed or not.
C8_AtMostOneCall ==
    /\ apiCalls <= 1
    /\ apiCalls = 1 =>
          /\ pc \in {"extract", "done"}
          /\ Loaded
          /\ cache[ProfilePath].cached
          /\ cache[CredentialsPath].cached
          /\ Has(cache[CredentialsPath].value, CREDENTIALS_KEY)
          /\ client
          /\ RequestBuilt
    /\ CallSucceeded => apiCalls = 1

C8_Witness ==
    /\ Finished
    /\ apiCalls = 1
    /\ outcome.cause.cls = "BadRequestError"

\* C9: once a path is cached, it is not opened again and its cached value
\* never changes; a load of a cached path returns the cached value; the
\* cache only ever gains the value just read from the file; a load that
\* fails leaves the cache as it was.
C9_CachedOnce ==
    [][/\ \A p \in Paths :
            /\ cache[p].cached => (cache'[p] = cache[p] /\ opens'[p] = opens[p])
            /\ cache'[p] # cache[p] =>
                  /\ disk[p].kind = "yaml"
                  /\ cache'[p] = [cached |-> TRUE, value |-> disk[p].value]
                  /\ opens'[p] = opens[p] + 1
            /\ (opens'[p] # opens[p] /\ disk[p].kind # "yaml") => cache' = cache
       /\ (pc = "load_profile" /\ cache[ProfilePath].cached)
            => config' = cache[ProfilePath].value
      ]_vars

C9_Witness ==
    /\ invocations = 2
    /\ pc = "make_client"
    /\ edits = 1
    /\ cache[ProfilePath].cached
    /\ disk[ProfilePath] # [kind |-> "yaml", value |-> cache[ProfilePath].value]
    /\ config = cache[ProfilePath].value
    /\ opens[ProfilePath] = 1

----------------------------------------------------------------------------
(* The cut of a prompt: claim C11 *)

\* the activations that have split their prompt
SplitFrames == {i \in 1..Len(stack) : stack[i].phase # "start"}

\* the piece prompt[a : b] of the text p, bounds taken as they are
Piece(p, a, b) == [src |-> p.src, lo |-> p.lo + a, hi |-> p.lo + b]

\* C11: for every prompt of length L that is split, with m = L div 2 and
\* o = floor(0.05 * L), the first half is exactly prompt[0 : m+o] and the
\* second half exactly prompt[m-o : L]: the clamps to 0 and L change
\* nothing, the two halves together cover the prompt, and they share exactly
\* 2*o characters; the preparer running for a half holds exactly that piece.
C11_HalvesWithOverlap ==
    impl = "old" =>
        \A i \in SplitFrames :
            LET p == stack[i].prompt
                L == p.hi - p.lo
                m == L \div 2
                o == L \div 20
            IN  /\ 0 <= m - o
                /\ m + o <= L
                /\ start_cut(p) = m - o
                /\ end_cut(p) = m + o
                /\ first_half(p) = Piece(p, 0, m + o)
                /\ second_half(p) = Piece(p, m - o, L)
                /\ first_half(p).lo = p.lo
                /\ second_half(p).hi = p.hi
                /\ second_half(p).lo <= first_half(p).hi
                /\ first_half(p).hi - second_half(p).lo = 2 * o
                /\ i < Len(stack)
                /\ stack[i].phase = "first" => stack[i + 1].prompt = Piece(p, 0, m + o)
                /\ stack[i].phase = "second" => stack[i + 1].prompt = Piece(p, m - o, L)

C11_Witness ==
    /\ impl = "old"
    /\ Len(stack) = CUTS + 1
    /\ \A i \in 1..CUTS : stack[i].phase = "second"
    /\ \E i \in 1..CUTS : (stack[i].prompt.hi - stack[i].prompt.lo) % 2 = 1
    /\ Top(stack).prompt.hi = prompt.hi
    /\ Top(stack).prompt.lo > 0

----------------------------------------------------------------------------
(* The token check before the call: claim C12 *)

\* the estimate gptapi() takes of the request it holds
RequestEstimate == TotalTokens(parameters.messages)

C12_NoBatching ==
    impl = "new" =>
        /\ RequestBuilt =>
              /\ RequestEstimate = EstimateOf(prompt)
              /\ RequestEstimate <= config.parameters.max_tokens
        /\ pc = "invoke" => (RequestBuilt /\ ~SkipsCall)
        /\ pc = "extract" => (completion # Unassigned /\ apiCalls = 1)
        /\ apiCalls > 0 => RequestEstimate <= config.parameters.max_tokens

C12_LimitRaises ==
    (/\ impl = "new"
     /\ pc = "prepare"
     /\ Estimable
     /\ Has(config, "parameters")
     /\ EstimateOf(prompt) > config.parameters.max_tokens)
    => /\ pc' = "done"
       /\ outcome'.kind = "SystemExit"
       /\ outcome'.msg = <<MsgTokenLimit>>
       /\ parameters' = Unassigned
       /\ apiCalls' = 0

\* C12: in gptapi.py the branch "splitting the request into smaller batches"
\* is never taken: prepare_parameters raises 'Token limit exceeded.' whenever
\* the estimate exceeds the profile's parameters.max_tokens, so the request
\* that reaches the check has an estimate within max_tokens, result
\* extraction is only reached after a completion call of this invocation
\* (completion is never read unassigned), and every request sent has an
\* estimate within parameters.max_tokens.
C12_BatchBranchDead ==
    /\ []C12_NoBatching
    /\ [][C12_LimitRaises]_vars

C12_Witness ==
    /\ impl = "new"
    /\ pc = "extract"
    /\ apiCalls = 1
    /\ completion # Unassigned
    /\ RequestEstimate = config.parameters.max_tokens

====
